---- MODULE Spec2Model ----
(***************************************************************************)
(* Model of src/proj_1.py: currency-tagged money (AdvancedMoney), account  *)
(* balance snapshots with a transaction log (AccountBalance) and the       *)
(* investment ledger (InvestmentBalance).                                  *)
(*                                                                         *)
(* Amounts are integers in cents (Decimal quantized to 0.01).  An exact    *)
(* decimal that is not yet quantized is a fraction n/d of cents.           *)
(* Python objects live on a heap: objs holds the balance snapshots, txns   *)
(* the transaction dicts (a list copy is shallow, so the dicts are shared  *)
(* between a snapshot and its descendants).  A snapshot's list and its two *)
(* dicts are held by value: the code copies them on every hand-over.       *)
(* A call that raises leaves no reachable object behind; the heap it       *)
(* returns is the heap it was given.                                       *)
(***************************************************************************)
EXTENDS Integers, Sequences, FiniteSets, TLC

\* objs, txns, clock: the heap and the clock behind datetime.now().
\* last: the most recent call, its arguments and what the caller got back.
\* parent: for each snapshot, the call that returned it (op "none" for an
\* account opened by a constructor); a record of the lineage, read by no code.
VARIABLES objs, txns, clock, last, parent

vars == <<objs, txns, clock, last, parent>>

\* ------------------------------------------------------------- bounds
\* The largest number of balance snapshots on the heap.
MaxObjs == 4

\* ------------------------------------------------------------- inputs
CurrencyInputs == {"USD", "eur"}
\* Exact decimals handed to a constructor, as <<n, d>> for n/d cents:
\* "-1.00" and "0.995".
OpeningAmounts == {<<-100, 1>>, <<995, 10>>}
\* The second account opens with "0.995".
SecondOpeningAmounts == {<<995, 10>>}
MoneyAmounts == {-100, 100, 200}
PriceAmounts == {100, 200}
Symbols == {"AAPL"}
Quantities == {-1, 0, 1}
\* The limits passed to get_transaction_history; 10 is its default.
Limits == {0, 1, 2, 10}
\* Exact decimal amounts a Money is constructed from, as <<n, d>> = n/d cents:
\* 1.005, -1.005, 0.025, -0.025 (ties), 1.004, -1.006, 0.0349, 1.00.
ExactAmounts ==
    {<<1005, 10>>, <<-1005, 10>>, <<25, 10>>, <<-25, 10>>,
     <<1004, 10>>, <<-1006, 10>>, <<349, 100>>, <<100, 1>>}
\* Integer multipliers and divisors of a Money.
Multipliers == {-2, 0, 3}
Divisors == {-8, -3, 0, 3, 8}

\* ------------------------------------------------------------- decimal
Abs(x) == IF x < 0 THEN -x ELSE x

\* Rounding toward zero, dropping whatever lies beyond the cent.
QuantizeDown(n, d) ==
    LET q == Abs(n) \div Abs(d)
    IN  IF (n < 0) # (d < 0) THEN -q ELSE q

\* Decimal(n/d).quantize(Decimal('0.01'), rounding=ROUND_HALF_UP), in cents:
\* the nearest integer to n/d, a tie going away from zero.
Quantize(n, d) ==
    LET sn == IF d < 0 THEN -n ELSE n
        sd == Abs(d)
        q  == (2 * Abs(sn) + sd) \div (2 * sd)
    IN  IF sn < 0 THEN -q ELSE q

\* str.upper() on the currency codes in use.
Upper(c) ==
    CASE c = "usd" -> "USD"
      [] c = "eur" -> "EUR"
      [] OTHER -> c

\* ------------------------------------------------------------- AdvancedMoney
\* AdvancedMoney.__init__(amount, currency), amount the exact decimal n/d cents.
AdvancedMoney(n, d, currency) ==
    [amount |-> Quantize(n, d), currency |-> Upper(currency)]

MoneyOk(m) == [exc |-> "None", val |-> <<m>>, bool |-> FALSE]
BoolOk(b) == [exc |-> "None", val |-> <<>>, bool |-> b]
MoneyRaise(e) == [exc |-> e, val |-> <<>>, bool |-> FALSE]

\* _check_currency without its currency comparison.
CheckCurrencyAlwaysPasses(a, b) == "None"

\* AdvancedMoney._check_currency: the exception it raises, "None" for none.
CheckCurrency(a, b) ==
    IF a.currency # b.currency THEN "IncompatibleCurrencyError" ELSE "None"

\* AdvancedMoney.__add__
Add(a, b) ==
    IF CheckCurrency(a, b) # "None" THEN MoneyRaise(CheckCurrency(a, b))
    ELSE MoneyOk(AdvancedMoney(a.amount + b.amount, 1, a.currency))

\* AdvancedMoney.__sub__
Sub(a, b) ==
    IF CheckCurrency(a, b) # "None" THEN MoneyRaise(CheckCurrency(a, b))
    ELSE MoneyOk(AdvancedMoney(a.amount - b.amount, 1, a.currency))

\* AdvancedMoney.__mul__ / __rmul__ by an integer.
Mul(a, k) == AdvancedMoney(a.amount * k, 1, a.currency)

\* AdvancedMoney.__truediv__ by an integer.
TrueDiv(a, k) ==
    IF k = 0 THEN MoneyRaise("ZeroDivisionError")
    ELSE MoneyOk(AdvancedMoney(a.amount, k, a.currency))

\* AdvancedMoney.__eq__
Eq(a, b) == a.amount = b.amount /\ a.currency = b.currency

\* A comparison that never finds the left amount greater.
GtNever(a, b) == BoolOk(FALSE)

\* AdvancedMoney.__gt__
Gt(a, b) ==
    IF CheckCurrency(a, b) # "None" THEN MoneyRaise(CheckCurrency(a, b))
    ELSE BoolOk(a.amount > b.amount)

\* ------------------------------------------------------------- heap
Heap == [objs |-> objs, txns |-> txns, clock |-> clock]

Result(h, ret) == [h |-> h, exc |-> "None", ret |-> ret]
Raise(h, e) == [h |-> h, exc |-> e, ret |-> <<>>]

EmptyDict == [s \in {} |-> 0]

\* A balance snapshot seen as the AdvancedMoney it inherits from.
AsMoney(o) == [amount |-> o.amount, currency |-> o.currency]

\* AccountBalance.__init__ (and InvestmentBalance.__init__, which adds the two
\* empty dicts): a new object on the heap, created_date = datetime.now().
Construct(h, cls, n, d, currency, account_type) ==
    [h EXCEPT
       !.objs = Append(@, [cls |-> cls,
                           amount |-> Quantize(n, d),
                           currency |-> Upper(currency),
                           account_type |-> account_type,
                           transactions |-> <<>>,
                           created_date |-> h.clock,
                           holdings |-> EmptyDict,
                           cost_basis |-> EmptyDict]),
       !.clock = @ + 1]

\* Every __init__ taking (amount, currency, account_type).
MaxPositionalArgsAllThree(cls) == 3

\* The positional arguments __init__ takes besides self:
\* AccountBalance(amount, currency, account_type), InvestmentBalance(amount, currency).
MaxPositionalArgs(cls) == IF cls = "InvestmentBalance" THEN 2 ELSE 3

\* self.__class__(amount, currency, account_type), as deposit and withdraw call it.
Instantiate(h, cls, amount, currency, account_type) ==
    IF 3 > MaxPositionalArgs(cls) THEN Raise(h, "TypeError")
    ELSE Result(Construct(h, cls, amount, 1, currency,
                          IF cls = "InvestmentBalance" THEN "investment"
                          ELSE account_type),
                <<Len(h.objs) + 1>>)

\* A copy of the log only: the new object keeps the creation date it was
\* constructed with.
CopyStateToLogOnly(h, self, new) ==
    [h EXCEPT !.objs[new].transactions = h.objs[self].transactions]

\* A copy of the creation date only: the new object starts with an empty log.
CopyStateToDateOnly(h, self, new) ==
    [h EXCEPT !.objs[new].created_date = h.objs[self].created_date]

\* _copy_state_to: AccountBalance's copies the log and the creation date;
\* InvestmentBalance's override also copies holdings and cost basis.
CopyStateTo(h, self, new) ==
    LET s == h.objs[self]
        base == [h.objs[new] EXCEPT !.transactions = s.transactions,
                                    !.created_date = s.created_date]
    IN  [h EXCEPT !.objs[new] =
           IF s.cls = "InvestmentBalance" /\ base.cls = "InvestmentBalance"
           THEN [base EXCEPT !.holdings = s.holdings,
                             !.cost_basis = s.cost_basis]
           ELSE base]

\* An append that writes every record down as a deposit.
AppendRecordAsDeposit(h, new, type, amount, description) ==
    [h EXCEPT
       !.txns = Append(@, [type |-> "deposit",
                           amount |-> amount,
                           description |-> description,
                           timestamp |-> h.clock,
                           balance_after |-> new,
                           gain_loss |-> <<>>]),
       !.objs[new].transactions = Append(@, Len(h.txns) + 1),
       !.clock = @ + 1]

\* new_balance.transactions.append({...}): the dict goes on the heap, its index
\* on the new snapshot's list; timestamp = datetime.now().
AppendRecord(h, new, type, amount, description) ==
    [h EXCEPT
       !.txns = Append(@, [type |-> type,
                           amount |-> amount,
                           description |-> description,
                           timestamp |-> h.clock,
                           balance_after |-> new,
                           gain_loss |-> <<>>]),
       !.objs[new].transactions = Append(@, Len(h.txns) + 1),
       !.clock = @ + 1]

\* ------------------------------------------------------------- AccountBalance
\* A deposit that updates self and its log in place and returns self.
DepositInPlace(h, self, amount, description) ==
    LET s == h.objs[self] IN
    IF amount.currency # s.currency
    THEN Raise(h, "IncompatibleCurrencyError")
    ELSE Result(AppendRecord([h EXCEPT !.objs[self].amount = @ + amount.amount],
                             self, "deposit", amount, description),
                <<self>>)

\* A deposit without the currency test.
DepositUnchecked(h, self, amount, description) ==
    LET s == h.objs[self]
        c == Instantiate(h, s.cls, s.amount + amount.amount, s.currency,
                         s.account_type)
    IN  IF c.exc # "None" THEN Raise(h, c.exc)
        ELSE Result(AppendRecord(CopyStateTo(c.h, self, c.ret[1]), c.ret[1],
                                 "deposit", amount, description),
                    c.ret)

\* AccountBalance.deposit
deposit(h, self, amount, description) ==
    LET s == h.objs[self] IN
    IF amount.currency # s.currency
    THEN Raise(h, "IncompatibleCurrencyError")
    ELSE LET c == Instantiate(h, s.cls, s.amount + amount.amount, s.currency,
                              s.account_type)
         IN  IF c.exc # "None" THEN Raise(h, c.exc)
             ELSE Result(AppendRecord(CopyStateTo(c.h, self, c.ret[1]),
                                      c.ret[1], "deposit", amount, description),
                         c.ret)

\* A withdrawal without the funds test.
WithdrawUnchecked(h, self, amount, description) ==
    LET s == h.objs[self] IN
    IF amount.currency # s.currency
    THEN Raise(h, "IncompatibleCurrencyError")
    ELSE LET c == Instantiate(h, s.cls, s.amount - amount.amount,
                              s.currency, s.account_type)
         IN  IF c.exc # "None" THEN Raise(h, c.exc)
             ELSE Result(AppendRecord(CopyStateTo(c.h, self, c.ret[1]),
                                      c.ret[1], "withdrawal", amount,
                                      description),
                         c.ret)

\* AccountBalance.withdraw
withdraw(h, self, amount, description) ==
    LET s == h.objs[self]
        g == Gt(amount, AsMoney(s))
    IN  IF amount.currency # s.currency
        THEN Raise(h, "IncompatibleCurrencyError")
        ELSE IF g.exc # "None" THEN Raise(h, g.exc)
        ELSE IF g.bool THEN Raise(h, "ValueError: Insufficient funds")
        ELSE LET c == Instantiate(h, s.cls, s.amount - amount.amount,
                                  s.currency, s.account_type)
             IN  IF c.exc # "None" THEN Raise(h, c.exc)
                 ELSE Result(AppendRecord(CopyStateTo(c.h, self, c.ret[1]),
                                          c.ret[1], "withdrawal", amount,
                                          description),
                             c.ret)

\* AccountBalance.transfer_to; the description argument is not used by the code.
transfer_to(h, self, target, amount, description) ==
    LET s == h.objs[self]
        t == h.objs[target]
    IN  IF amount.currency # s.currency \/ amount.currency # t.currency
        THEN Raise(h, "IncompatibleCurrencyError")
        ELSE LET w == withdraw(h, self, amount,
                               <<"Transfer to ", t.account_type>>)
             IN  IF w.exc # "None" THEN Raise(h, w.exc)
                 ELSE LET d == deposit(w.h, target, amount,
                                       <<"Transfer from ", s.account_type>>)
                      IN  IF d.exc # "None" THEN Raise(h, d.exc)
                          ELSE Result(d.h, w.ret \o d.ret)

\* list[-limit:], Python's slice: for limit > 0 the last limit items (all of
\* them when the list is shorter), for limit = 0 the slice [0:], and for
\* limit < 0 the items from position -limit on.
SliceFromMinus(lst, limit) ==
    LET n == Len(lst)
        start == IF limit > 0
                 THEN (IF n - limit > 0 THEN n - limit ELSE 0)
                 ELSE (IF -limit < n THEN -limit ELSE n)
    IN  SubSeq(lst, start + 1, n)

\* AccountBalance.get_transaction_history: the records (their places on the
\* heap) it returns.
get_transaction_history(h, self, limit) ==
    SliceFromMinus(h.objs[self].transactions, limit)

\* ------------------------------------------------------------- InvestmentBalance
\* d[k] = v on a dict held as a function.
DictSet(d, k, v) == [x \in DOMAIN d \cup {k} |-> IF x = k THEN v ELSE d[x]]

\* del d[k]
DictDel(d, k) == [x \in DOMAIN d \ {k} |-> d[x]]

\* InvestmentBalance.buy_stock
buy_stock(h, self, symbol, quantity, price_per_share) ==
    LET s == h.objs[self]
        total_cost == Mul(price_per_share, quantity)
        g == Gt(total_cost, AsMoney(s))
    IN  IF g.exc # "None" THEN Raise(h, g.exc)
        ELSE IF g.bool
        THEN Raise(h, "ValueError: Insufficient funds for purchase")
        ELSE LET w == withdraw(h, self, total_cost,
                               <<"Buy ", ToString(quantity), " shares of ",
                                 symbol>>)
             IN
             IF w.exc # "None" THEN Raise(h, w.exc)
             ELSE IF w.h.objs[w.ret[1]].cls # "InvestmentBalance"
             THEN Raise(h, "AssertionError")
             ELSE
             LET nb == w.ret[1]
                 n  == w.h.objs[nb]
             IN
             IF symbol \in DOMAIN n.holdings
             THEN IF symbol \notin DOMAIN n.cost_basis
                  THEN Raise(h, "KeyError")
                  ELSE
                  LET old_quantity == n.holdings[symbol]
                      old_cost_basis == n.cost_basis[symbol]
                      total_shares == old_quantity + quantity
                      total_cost_basis ==
                          Add(Mul(old_cost_basis, old_quantity), total_cost)
                  IN
                  IF total_cost_basis.exc # "None"
                  THEN Raise(h, total_cost_basis.exc)
                  ELSE
                  LET new_cost_basis ==
                          TrueDiv(total_cost_basis.val[1], total_shares)
                  IN
                  IF new_cost_basis.exc # "None"
                  THEN Raise(h, new_cost_basis.exc)
                  ELSE Result(
                         [w.h EXCEPT
                            !.objs[nb].holdings =
                                DictSet(@, symbol, total_shares),
                            !.objs[nb].cost_basis =
                                DictSet(@, symbol, new_cost_basis.val[1])],
                         w.ret)
             ELSE Result(
                    [w.h EXCEPT
                       !.objs[nb].holdings = DictSet(@, symbol, quantity),
                       !.objs[nb].cost_basis =
                           DictSet(@, symbol, price_per_share)],
                    w.ret)

\* InvestmentBalance.sell_stock
\* A sale that does not look at the holdings before crediting the proceeds.
SellStockUnchecked(h, self, symbol, quantity, price_per_share) ==
    LET d == deposit(h, self, Mul(price_per_share, quantity),
                     <<"Sell ", ToString(quantity), " shares of ", symbol>>)
    IN  IF d.exc # "None" THEN Raise(h, d.exc) ELSE Result(d.h, d.ret)

sell_stock(h, self, symbol, quantity, price_per_share) ==
    LET s == h.objs[self] IN
    IF symbol \notin DOMAIN s.holdings THEN
        Raise(h, "ValueError: Insufficient shares")
    ELSE IF s.holdings[symbol] < quantity THEN
        Raise(h, "ValueError: Insufficient shares")
    ELSE
    LET total_proceeds == Mul(price_per_share, quantity)
        d == deposit(h, self, total_proceeds,
                     <<"Sell ", ToString(quantity), " shares of ", symbol>>)
    IN
    IF d.exc # "None" THEN Raise(h, d.exc)
    ELSE IF d.h.objs[d.ret[1]].cls # "InvestmentBalance"
    THEN Raise(h, "AssertionError")
    ELSE
    LET nb == d.ret[1]
        n  == d.h.objs[nb]
        left == n.holdings[symbol] - quantity
        h1 == IF left = 0
              THEN [d.h EXCEPT !.objs[nb].holdings = DictDel(@, symbol),
                               !.objs[nb].cost_basis = DictDel(@, symbol)]
              ELSE [d.h EXCEPT !.objs[nb].holdings = DictSet(@, symbol, left)]
        last_record == n.transactions[Len(n.transactions)]
    IN
    IF symbol \notin DOMAIN n.holdings
       \/ symbol \notin DOMAIN n.cost_basis
       \/ symbol \notin DOMAIN s.cost_basis
    THEN Raise(h, "KeyError")
    ELSE
    LET original_cost == Mul(s.cost_basis[symbol], quantity)
        gain_loss == Sub(total_proceeds, original_cost)
    IN
    IF gain_loss.exc # "None" THEN Raise(h, gain_loss.exc)
    ELSE Result([h1 EXCEPT !.txns[last_record].gain_loss = gain_loss.val],
                d.ret)

\* ------------------------------------------------------------- state machine
\* The AdvancedMoney values callers pass, each built by the constructor.
MoneyArgs ==
    {AdvancedMoney(a, 1, c) : a \in MoneyAmounts, c \in CurrencyInputs}

\* The prices per share callers pass.
PriceArgs ==
    {AdvancedMoney(a, 1, c) : a \in PriceAmounts, c \in CurrencyInputs}

NoHeap == [objs |-> <<>>, txns |-> <<>>, clock |-> 0]

NoCall ==
    [op |-> "none", self |-> 0, target |-> 0,
     money |-> [amount |-> 0, currency |-> "USD"],
     other |-> [amount |-> 0, currency |-> "USD"],
     symbol |-> "", quantity |-> 0, exc |-> "None", ret |-> <<>>,
     val |-> <<>>, bool |-> FALSE,
     limit |-> 0, history |-> <<>>, num |-> 0, den |-> 1]

Root == [op |-> "none", from |-> 0, money |-> [amount |-> 0, currency |-> "USD"]]

\* The accounts the program opens: a checking account and either a savings
\* account or an investment account (__main__ opens one of each).
Init ==
    \E a1 \in OpeningAmounts, a2 \in SecondOpeningAmounts,
       c2 \in CurrencyInputs,
       k2 \in {"savings", "investment"} :
        LET h1 == Construct(NoHeap, "AccountBalance", a1[1], a1[2], "USD",
                            "checking")
            h2 == IF k2 = "investment"
                  THEN Construct(h1, "InvestmentBalance", a2[1], a2[2], c2,
                                 "investment")
                  ELSE Construct(h1, "AccountBalance", a2[1], a2[2], c2, k2)
        IN  /\ objs = h2.objs
            /\ txns = h2.txns
            /\ clock = h2.clock
            /\ last = NoCall
            /\ parent = <<Root, Root>>

\* The snapshot each returned snapshot descends from, and by which step:
\* transfer_to returns (withdraw on self, deposit on target), buy_stock
\* withdraws from self and sell_stock deposits to it.
Lineage(call, ret) ==
    [k \in 1..Len(ret) |->
        [op |-> IF call.op = "transfer_to"
                THEN (IF k = 1 THEN "transfer_to:withdraw"
                      ELSE "transfer_to:deposit")
                ELSE call.op,
         from |-> IF call.op = "transfer_to" /\ k = 2 THEN call.target
                  ELSE call.self,
         money |-> call.money]]

\* A call returns or raises: the heap it leaves, and what the caller saw.
\* A call that hands back an existing object adds nothing to the lineage.
Apply(r, call) ==
    /\ objs' = r.h.objs
    /\ txns' = r.h.txns
    /\ clock' = r.h.clock
    /\ last' = [call EXCEPT !.exc = r.exc, !.ret = r.ret]
    /\ parent' = IF Len(r.h.objs) > Len(objs)
                 THEN parent \o Lineage(call, r.ret)
                 ELSE parent

Deposit ==
    \E self \in 1..Len(objs), m \in MoneyArgs :
        /\ Len(objs) + 1 <= MaxObjs
        /\ Apply(deposit(Heap, self, m, <<"Deposit">>),
                 [NoCall EXCEPT !.op = "deposit", !.self = self, !.money = m])

Withdraw ==
    \E self \in 1..Len(objs), m \in MoneyArgs :
        /\ Len(objs) + 1 <= MaxObjs
        /\ Apply(withdraw(Heap, self, m, <<"Withdrawal">>),
                 [NoCall EXCEPT !.op = "withdraw", !.self = self, !.money = m])

TransferTo ==
    \E self \in 1..Len(objs), target \in 1..Len(objs), m \in MoneyArgs :
        /\ Len(objs) + 2 <= MaxObjs
        /\ Apply(transfer_to(Heap, self, target, m, <<"Transfer">>),
                 [NoCall EXCEPT !.op = "transfer_to", !.self = self,
                                !.target = target, !.money = m])

Investments == {i \in 1..Len(objs) : objs[i].cls = "InvestmentBalance"}

BuyStock ==
    \E self \in Investments, symbol \in Symbols, quantity \in Quantities,
       price \in PriceArgs :
        /\ Len(objs) + 1 <= MaxObjs
        /\ Apply(buy_stock(Heap, self, symbol, quantity, price),
                 [NoCall EXCEPT !.op = "buy_stock", !.self = self,
                                !.money = price, !.symbol = symbol,
                                !.quantity = quantity])

SellStock ==
    \E self \in Investments, symbol \in Symbols, quantity \in Quantities,
       price \in PriceArgs :
        /\ Len(objs) + 1 <= MaxObjs
        /\ Apply(sell_stock(Heap, self, symbol, quantity, price),
                 [NoCall EXCEPT !.op = "sell_stock", !.self = self,
                                !.money = price, !.symbol = symbol,
                                !.quantity = quantity])

Next == Deposit \/ Withdraw \/ TransferTo \/ BuyStock \/ SellStock

Spec == Init /\ [][Next]_vars

\* Reading the log is a query that changes no object; it is explored in a
\* specification of its own, over the logs that deposits and withdrawals build.
GetTransactionHistory ==
    \E self \in 1..Len(objs), limit \in Limits :
        /\ last' = [NoCall EXCEPT
                      !.op = "get_transaction_history", !.self = self,
                      !.limit = limit,
                      !.history = get_transaction_history(Heap, self, limit)]
        /\ UNCHANGED <<objs, txns, clock, parent>>

HistoryNext == Deposit \/ Withdraw \/ GetTransactionHistory

HistorySpec == Init /\ [][HistoryNext]_vars

\* ------------------------------------------------------------- money alone
\* AdvancedMoney arithmetic on its own: no account is open, each step applies
\* one operator to two values and records what came back.
MoneyInit ==
    /\ objs = <<>>
    /\ txns = <<>>
    /\ clock = 0
    /\ last = NoCall
    /\ parent = <<>>

\* What the caller of a binary operator saw.
MoneyCall(op, a, b, r) ==
    [NoCall EXCEPT !.op = op, !.money = a, !.other = b,
                   !.exc = r.exc, !.val = r.val, !.bool = r.bool]

MoneyAdd ==
    \E a \in MoneyArgs, b \in MoneyArgs :
        /\ last' = MoneyCall("add", a, b, Add(a, b))
        /\ UNCHANGED <<objs, txns, clock, parent>>

MoneySub ==
    \E a \in MoneyArgs, b \in MoneyArgs :
        /\ last' = MoneyCall("sub", a, b, Sub(a, b))
        /\ UNCHANGED <<objs, txns, clock, parent>>

MoneyGt ==
    \E a \in MoneyArgs, b \in MoneyArgs :
        /\ last' = MoneyCall("gt", a, b, Gt(a, b))
        /\ UNCHANGED <<objs, txns, clock, parent>>

MoneyNew ==
    \E x \in ExactAmounts, c \in CurrencyInputs :
        /\ last' = [NoCall EXCEPT
                      !.op = "new", !.num = x[1], !.den = x[2],
                      !.val = <<AdvancedMoney(x[1], x[2], c)>>]
        /\ UNCHANGED <<objs, txns, clock, parent>>

MoneyMul ==
    \E a \in MoneyArgs, k \in Multipliers :
        /\ last' = [NoCall EXCEPT
                      !.op = "mul", !.money = a, !.quantity = k,
                      !.val = <<Mul(a, k)>>]
        /\ UNCHANGED <<objs, txns, clock, parent>>

MoneyDiv ==
    \E a \in MoneyArgs, k \in Divisors :
        /\ last' = [MoneyCall("truediv", a, NoCall.other, TrueDiv(a, k))
                      EXCEPT !.quantity = k]
        /\ UNCHANGED <<objs, txns, clock, parent>>

MoneyNext ==
    \/ MoneyAdd \/ MoneySub \/ MoneyGt
    \/ MoneyNew \/ MoneyMul \/ MoneyDiv

MoneySpec == MoneyInit /\ [][MoneyNext]_vars

\* ------------------------------------------------------------- claims
\* The call in last was made on, and with money of, one currency.
SameCurrencyCall == last.money.currency = objs[last.self].currency

Money(amount, currency) == [amount |-> amount, currency |-> currency]

\* C1: deposit, and withdraw of an amount within the balance, on an
\* InvestmentBalance with money of its currency returns without error a new
\* snapshot that is an InvestmentBalance of account kind 'investment' whose
\* holdings and cost basis equal the original's.
C1_InvestmentFactoryKeepsKind ==
    ( /\ last.op \in {"deposit", "withdraw"}
      /\ objs[last.self].cls = "InvestmentBalance"
      /\ SameCurrencyCall
      /\ (last.op = "withdraw" =>
             last.money.amount <= objs[last.self].amount) )
    => /\ last.exc = "None"
       /\ Len(last.ret) = 1
       /\ last.ret[1] # last.self
       /\ objs[last.ret[1]].cls = "InvestmentBalance"
       /\ objs[last.ret[1]].account_type = "investment"
       /\ objs[last.ret[1]].holdings = objs[last.self].holdings
       /\ objs[last.ret[1]].cost_basis = objs[last.self].cost_basis

\* C2: buy_stock of one or more shares at a positive price whose total cost
\* (price x quantity) is within the cash returns
\* a new snapshot; for a symbol already held the quantity is oldQty + quantity
\* and the cost basis (oldQty x oldCost + totalCost) / (oldQty + quantity)
\* rounded half-up to cents, otherwise the quantity is `quantity` and the cost
\* basis the price per share.
C2_BuyStockUpdatesHoldings ==
    ( /\ last.op = "buy_stock"
      /\ SameCurrencyCall
      /\ last.quantity >= 1
      /\ last.money.amount > 0
      /\ last.money.amount * last.quantity <= objs[last.self].amount )
    => /\ last.exc = "None"
       /\ Len(last.ret) = 1
       /\ LET s == objs[last.self]
              n == objs[last.ret[1]]
              sym == last.symbol
          IN  /\ sym \in DOMAIN n.holdings
              /\ sym \in DOMAIN n.cost_basis
              /\ IF sym \in DOMAIN s.holdings
                 THEN /\ n.holdings[sym] = s.holdings[sym] + last.quantity
                      /\ n.cost_basis[sym] =
                           Money(Quantize(s.holdings[sym]
                                            * s.cost_basis[sym].amount
                                          + last.money.amount * last.quantity,
                                          s.holdings[sym] + last.quantity),
                                 s.currency)
                 ELSE /\ n.holdings[sym] = last.quantity
                      /\ n.cost_basis[sym] = last.money

\* What C3 asks of a sale of q shares of sym at price p on snapshot i, given
\* the result r of the call.
SaleRecordsGain(i, sym, q, p, r) ==
    /\ r.exc = "None"
    /\ Len(r.ret) = 1
    /\ LET n == r.h.objs[r.ret[1]]
           rec == r.h.txns[n.transactions[Len(n.transactions)]]
       IN  /\ rec.type = "deposit"
           /\ rec.amount = Money(p.amount * q, p.currency)
           /\ rec.gain_loss =
                <<Money(p.amount * q - objs[i].cost_basis[sym].amount * q,
                        p.currency)>>

\* C3: sell_stock on a snapshot holding at least `quantity` shares returns a
\* snapshot whose last record is a deposit of the proceeds carrying
\* gainLoss = proceeds - pre-sale cost basis x quantity; in particular a
\* purchase of q >= 1 shares at a positive price that the cash covers can be
\* followed by a sale of up to q of them, with that gain or loss recorded.
C3_SellStockRecordsGainLoss ==
    /\ ( /\ last.op = "sell_stock"
         /\ SameCurrencyCall
         /\ last.symbol \in DOMAIN objs[last.self].holdings
         /\ objs[last.self].holdings[last.symbol] >= last.quantity )
       => SaleRecordsGain(last.self, last.symbol, last.quantity, last.money,
                          [h |-> Heap, exc |-> last.exc, ret |-> last.ret])
    /\ ( /\ last.op = "buy_stock"
         /\ SameCurrencyCall
         /\ last.quantity >= 1
         /\ last.money.amount > 0
         /\ last.money.amount * last.quantity <= objs[last.self].amount )
       => /\ last.exc = "None"
          /\ Len(last.ret) = 1
          /\ \A q \in 1..last.quantity :
               \A p \in {m \in PriceArgs :
                           m.currency = objs[last.self].currency} :
                   SaleRecordsGain(last.ret[1], last.symbol, q, p,
                       sell_stock(Heap, last.ret[1], last.symbol, q, p))

\* C4: a step (a call that returns or raises) leaves every snapshot already on
\* the heap as it was: same amount, log, holdings, cost basis and every other
\* field, and every record of its log unchanged (no gain/loss added).
C4_SnapshotsNeverChange ==
    [][\A i \in 1..Len(objs) :
         /\ i <= Len(objs')
         /\ objs'[i] = objs[i]
         /\ \A k \in 1..Len(objs[i].transactions) :
              /\ objs[i].transactions[k] <= Len(txns')
              /\ txns'[objs[i].transactions[k]] = txns[objs[i].transactions[k]]
      ]_vars

\* C4 witness: a snapshot that already has a descendant is operated on again
\* and a second descendant is returned.
C4_Witness ==
    /\ last.exc = "None"
    /\ last.op \in {"deposit", "withdraw"}
    /\ \E i \in 1..Len(objs) :
         /\ i < last.ret[1]
         /\ parent[i].from = last.self
         /\ Len(objs[i].transactions) = Len(objs[last.self].transactions) + 1

\* C5: withdraw with money of the balance's currency raises "Insufficient
\* funds" exactly when the amount exceeds the balance; otherwise (equality
\* included) it returns a new balance of b.amount - m.amount.
C5_WithdrawFundsCheck ==
    (last.op = "withdraw" /\ SameCurrencyCall)
    => IF last.money.amount > objs[last.self].amount
       THEN last.exc = "ValueError: Insufficient funds" /\ last.ret = <<>>
       ELSE /\ last.exc = "None"
            /\ Len(last.ret) = 1
            /\ objs[last.ret[1]].amount =
                 objs[last.self].amount - last.money.amount

\* C6: b.deposit(m).withdraw(m) with m of b's currency: the deposit returns,
\* and the withdrawal of m from the snapshot it returned returns a balance
\* with b's amount, currency and account kind and a log two entries longer.
C6_DepositWithdrawRoundTrip ==
    /\ (last.op = "deposit" /\ SameCurrencyCall)
       => last.exc = "None" /\ Len(last.ret) = 1
    /\ ( /\ last.op = "withdraw"
         /\ parent[last.self].op = "deposit"
         /\ parent[last.self].money = last.money )
       => /\ last.exc = "None"
          /\ Len(last.ret) = 1
          /\ LET b == objs[parent[last.self].from]
                 n == objs[last.ret[1]]
             IN  /\ n.amount = b.amount
                 /\ n.currency = b.currency
                 /\ n.account_type = b.account_type
                 /\ Len(n.transactions) = Len(b.transactions) + 2

\* C7: for money a, b of different currencies a+b, a-b and a>b raise
\* IncompatibleCurrencyError and give no result; for one currency a+b and a-b
\* give money of that currency whose amount is the sum or the difference.
C7_CurrencySafety ==
    last.op \in {"add", "sub", "gt"}
    => IF last.money.currency # last.other.currency
       THEN /\ last.exc = "IncompatibleCurrencyError"
            /\ last.val = <<>>
            /\ last.bool = FALSE
       ELSE /\ last.exc = "None"
            /\ last.op = "add" =>
                 last.val = <<Money(last.money.amount + last.other.amount,
                                    last.money.currency)>>
            /\ last.op = "sub" =>
                 last.val = <<Money(last.money.amount - last.other.amount,
                                    last.money.currency)>>

\* C7 witness: a comparison of money of two currencies was attempted and
\* refused.
C7_Witness ==
    /\ last.op = "gt"
    /\ last.money.currency # last.other.currency
    /\ last.money.amount > last.other.amount
    /\ last.exc = "IncompatibleCurrencyError"

\* The call c, made in the current state, mixes currencies: deposit/withdraw
\* with money not of self's currency, transfer_to where source, target and
\* money are not all of one currency.
CurrencyMismatch(c) ==
    \/ /\ c.op \in {"deposit", "withdraw"}
       /\ c.money.currency # objs[c.self].currency
    \/ /\ c.op = "transfer_to"
       /\ \/ c.money.currency # objs[c.self].currency
          \/ c.money.currency # objs[c.target].currency

\* C8: deposit, withdraw and transfer_to with a currency mismatch raise
\* IncompatibleCurrencyError (whatever the amount), return nothing, and leave
\* the heap without any new snapshot or record.
C8_MismatchRejectedFirst ==
    [][CurrencyMismatch(last')
         => /\ last'.exc = "IncompatibleCurrencyError"
            /\ last'.ret = <<>>
            /\ objs' = objs
            /\ txns' = txns
      ]_vars

\* C8 witness: a transfer whose target is of another currency and whose amount
\* exceeds the source balance was refused for the currency.
C8_Witness ==
    /\ last.op = "transfer_to"
    /\ last.money.currency = objs[last.self].currency
    /\ last.money.currency # objs[last.target].currency
    /\ last.money.amount > objs[last.self].amount
    /\ last.exc = "IncompatibleCurrencyError"

\* C9: transfer_to among source, target and money of one currency, for plain
\* and investment balances alike: an amount within the source balance yields
\* (newSource, newTarget) with the amount moved, one withdrawal record added
\* to the source log and one deposit record to the target log, the total
\* conserved; a larger amount raises "Insufficient funds" and returns nothing.
C9_TransferMovesAmount ==
    ( /\ last.op = "transfer_to"
      /\ last.money.currency = objs[last.self].currency
      /\ last.money.currency = objs[last.target].currency )
    => LET s == objs[last.self]
           t == objs[last.target]
           m == last.money
       IN  IF m.amount > s.amount
           THEN last.exc = "ValueError: Insufficient funds" /\ last.ret = <<>>
           ELSE /\ last.exc = "None"
                /\ Len(last.ret) = 2
                /\ LET ns == objs[last.ret[1]]
                       nt == objs[last.ret[2]]
                   IN  /\ ns.amount = s.amount - m.amount
                       /\ nt.amount = t.amount + m.amount
                       /\ ns.amount + nt.amount = s.amount + t.amount
                       /\ Len(ns.transactions) = Len(s.transactions) + 1
                       /\ Len(nt.transactions) = Len(t.transactions) + 1
                       /\ SubSeq(ns.transactions, 1, Len(s.transactions))
                            = s.transactions
                       /\ SubSeq(nt.transactions, 1, Len(t.transactions))
                            = t.transactions
                       /\ txns[ns.transactions[Len(ns.transactions)]].type
                            = "withdrawal"
                       /\ txns[nt.transactions[Len(nt.transactions)]].type
                            = "deposit"

C11_HistoryIsLastLimitRecords ==
    (last.op = "get_transaction_history" /\ last.limit >= 0)
    => LET log == objs[last.self].transactions
           n == Len(log)
           k == IF last.limit < n THEN last.limit ELSE n
       IN  /\ Len(last.history) = k
           /\ \A j \in 1..k : last.history[j] = log[n - k + j]

\* The symbol is not held by the balance, or fewer shares of it are held than
\* the sale asks for.
NotEnoughShares(s, symbol, quantity) ==
    \/ symbol \notin DOMAIN s.holdings
    \/ s.holdings[symbol] < quantity

\* C12: sell_stock of a symbol that is not held, or of more shares than are
\* held, raises "Insufficient shares", returns nothing, and leaves the heap as
\* it was: no new snapshot, no new record, the original's cash, log, holdings
\* and cost basis unchanged.
C12_SellWithoutSharesRejected ==
    [][(/\ last'.op = "sell_stock"
        /\ NotEnoughShares(objs[last'.self], last'.symbol, last'.quantity))
         => /\ last'.exc = "ValueError: Insufficient shares"
            /\ last'.ret = <<>>
            /\ objs' = objs
            /\ txns' = txns
      ]_vars

\* C12 witness: one share of a symbol the balance does not hold was offered
\* for sale at a positive price in the balance's currency, and was refused.
C12_Witness ==
    /\ last.op = "sell_stock"
    /\ last.symbol \notin DOMAIN objs[last.self].holdings
    /\ last.quantity = 1
    /\ last.money.amount > 0
    /\ last.money.currency = objs[last.self].currency
    /\ last.exc = "ValueError: Insufficient shares"

\* C13: buy_stock of one or more shares at a positive price in the balance's
\* currency raises "Insufficient funds for purchase" exactly when the total
\* cost (price x quantity) exceeds the cash; when the total cost is within the
\* cash (equality included) it returns a new snapshot whose cash is the old
\* cash less the total cost and whose log is the old log plus one withdrawal
\* record. (That a refused purchase changes no snapshot is part of C4.)
C13_BuyStockFundsCheck ==
    ( /\ last.op = "buy_stock"
      /\ SameCurrencyCall
      /\ last.quantity >= 1
      /\ last.money.amount > 0 )
    => LET s == objs[last.self]
           total_cost == last.money.amount * last.quantity
       IN  IF total_cost > s.amount
           THEN /\ last.exc = "ValueError: Insufficient funds for purchase"
                /\ last.ret = <<>>
           ELSE /\ last.exc = "None"
                /\ Len(last.ret) = 1
                /\ LET n == objs[last.ret[1]]
                       k == Len(s.transactions)
                   IN  /\ n.amount = s.amount - total_cost
                       /\ Len(n.transactions) = k + 1
                       /\ SubSeq(n.transactions, 1, k) = s.transactions
                       /\ txns[n.transactions[k + 1]].type = "withdrawal"

\* r cents is the exact amount n/d cents (d # 0) rounded half-up to the cent:
\* no whole number of cents is nearer to n/d, and of two equally near ones r
\* is the one farther from zero.
IsHalfUpRounding(r, n, d) ==
    LET twice_gap == 2 * Abs(r * d - n)
    IN  /\ twice_gap <= Abs(d)
        /\ twice_gap = Abs(d) => Abs(r * d) > Abs(n)

\* C14: the amount of every Money produced by construction from an exact
\* decimal, by + and - (of one currency), by multiplication by an integer and
\* by division by a nonzero integer is a whole number of cents, the half-up
\* rounding of the exact result (1.005 gives 1.01); division by zero raises
\* ZeroDivisionError and produces no Money.
C14_AmountsRoundedHalfUp ==
    /\ last.op = "new"
         => /\ Len(last.val) = 1
            /\ IsHalfUpRounding(last.val[1].amount, last.num, last.den)
    /\ (last.op = "add" /\ last.money.currency = last.other.currency)
         => /\ Len(last.val) = 1
            /\ IsHalfUpRounding(last.val[1].amount,
                                last.money.amount + last.other.amount, 1)
    /\ (last.op = "sub" /\ last.money.currency = last.other.currency)
         => /\ Len(last.val) = 1
            /\ IsHalfUpRounding(last.val[1].amount,
                                last.money.amount - last.other.amount, 1)
    /\ last.op = "mul"
         => /\ Len(last.val) = 1
            /\ IsHalfUpRounding(last.val[1].amount,
                                last.money.amount * last.quantity, 1)
    /\ (last.op = "truediv" /\ last.quantity # 0)
         => /\ last.exc = "None"
            /\ Len(last.val) = 1
            /\ IsHalfUpRounding(last.val[1].amount,
                                last.money.amount, last.quantity)
    /\ (last.op = "truediv" /\ last.quantity = 0)
         => /\ last.exc = "ZeroDivisionError"
            /\ last.val = <<>>

\* C14 witness: a Money constructed from the exact decimal 1.005 has the
\* amount 1.01.
C14_Witness ==
    /\ last.op = "new"
    /\ last.num = 1005 /\ last.den = 10
    /\ last.val = <<Money(101, "USD")>>

\* The log of snapshot new is the log of snapshot old, in order, followed by
\* exactly one record, of the given kind and amount, whose balance-after is
\* the snapshot new itself.
LogExtendedByOne(new, old, type, amount) ==
    LET n == objs[new].transactions
        o == objs[old].transactions
    IN  /\ Len(n) = Len(o) + 1
        /\ SubSeq(n, 1, Len(o)) = o
        /\ txns[n[Len(n)]].type = type
        /\ txns[n[Len(n)]].amount = amount
        /\ txns[n[Len(n)]].balance_after = new

\* C15: every deposit or withdraw that returns, called directly or inside
\* transfer_to, buy_stock or sell_stock, returns a snapshot whose log is the
\* predecessor's log, in order, plus exactly one record: of type "deposit" or
\* "withdrawal" respectively, with the Money argument as its amount and the
\* new snapshot as its balance_after.
C15_OneRecordPerOperation ==
    last.exc = "None" =>
        /\ last.op = "deposit"
             => LogExtendedByOne(last.ret[1], last.self, "deposit", last.money)
        /\ last.op = "withdraw"
             => LogExtendedByOne(last.ret[1], last.self, "withdrawal",
                                 last.money)
        /\ last.op = "transfer_to"
             => /\ LogExtendedByOne(last.ret[1], last.self, "withdrawal",
                                    last.money)
                /\ LogExtendedByOne(last.ret[2], last.target, "deposit",
                                    last.money)
        /\ last.op = "buy_stock"
             => LogExtendedByOne(last.ret[1], last.self, "withdrawal",
                                 Money(last.money.amount * last.quantity,
                                       last.money.currency))
        /\ last.op = "sell_stock"
             => LogExtendedByOne(last.ret[1], last.self, "deposit",
                                 Money(last.money.amount * last.quantity,
                                       last.money.currency))

\* C15 witness: a withdrawal from a snapshot whose log already holds a record
\* returned a snapshot.
C15_Witness ==
    /\ last.op = "withdraw"
    /\ last.exc = "None"
    /\ Len(objs[last.self].transactions) >= 1
    /\ Len(objs[last.ret[1]].transactions) >= 2

\* The snapshot a constructor made from which snapshot i descends.
RECURSIVE RootOf(_)
RootOf(i) == IF parent[i].op = "none" THEN i ELSE RootOf(parent[i].from)

\* The plain (AccountBalance) snapshots returned by deposit, withdraw or
\* transfer_to.
PlainDescendants ==
    {i \in 1..Len(objs) : /\ objs[i].cls = "AccountBalance"
                          /\ parent[i].op # "none"}

\* C16: every plain balance returned by deposit, withdraw or transfer_to has
\* the currency, the account type and the creation date of the snapshot it
\* was made from, hence of the first snapshot of its lineage, although it was
\* constructed at a later time.
C16_LineageKeepsIdentity ==
    \A i \in PlainDescendants :
        /\ objs[i].currency = objs[parent[i].from].currency
        /\ objs[i].account_type = objs[parent[i].from].account_type
        /\ objs[i].created_date = objs[parent[i].from].created_date
        /\ objs[i].currency = objs[RootOf(i)].currency
        /\ objs[i].account_type = objs[RootOf(i)].account_type
        /\ objs[i].created_date = objs[RootOf(i)].created_date

\* C16 witness: a plain snapshot two operations away from the first snapshot
\* of its lineage, carrying that snapshot's creation date.
C16_Witness ==
    \E i \in PlainDescendants :
        /\ parent[i].from \in PlainDescendants
        /\ RootOf(i) # parent[i].from
        /\ objs[i].created_date = objs[RootOf(i)].created_date

\* C17: the snapshot returned by a withdraw (called directly, or on the
\* source of a transfer_to) has a non-negative amount, whatever the starting
\* balance and the Money argument, negative ones included.
C17_WithdrawResultNonNegative ==
    (last.op \in {"withdraw", "transfer_to"} /\ last.exc = "None")
    => objs[last.ret[1]].amount >= 0

\* C17 witness: a negative amount was withdrawn from a negative balance.
C17_Witness ==
    /\ last.op = "withdraw"
    /\ last.exc = "None"
    /\ objs[last.self].amount < 0
    /\ last.money.amount < 0
    /\ objs[last.ret[1]].amount = objs[last.self].amount - last.money.amount

\* The deposit amounts less the withdrawal amounts of the records of a log.
RECURSIVE LogSum(_)
LogSum(log) ==
    IF log = <<>> THEN 0
    ELSE LET r == txns[Head(log)]
         IN  (IF r.type = "deposit" THEN r.amount.amount
              ELSE -r.amount.amount) + LogSum(Tail(log))

\* C18: in every snapshot descending from a constructed balance by deposit,
\* withdraw and transfer_to, the amount is the constructed balance's amount
\* plus the deposit records less the withdrawal records of its log, and the
\* record at each place of the log (counted from one) has as balance_after a
\* snapshot whose log has exactly that many records.
C18_LogAccountsForAmount ==
    \A i \in 1..Len(objs) :
        LET log == objs[i].transactions
        IN  /\ objs[i].amount = objs[RootOf(i)].amount + LogSum(log)
            /\ \A j \in 1..Len(log) :
                  Len(objs[txns[log[j]].balance_after].transactions) = j

\* C18 witness: a snapshot whose log holds a deposit followed by a withdrawal
\* of a different amount.
C18_Witness ==
    \E i \in 1..Len(objs) :
        LET log == objs[i].transactions
        IN  /\ Len(log) = 2
            /\ txns[log[1]].type = "deposit"
            /\ txns[log[2]].type = "withdrawal"
            /\ txns[log[1]].amount # txns[log[2]].amount
            /\ objs[i].amount # objs[RootOf(i)].amount

\* Snapshot i was returned by a deposit (direct, or on the target of a
\* transfer), respectively by a withdrawal (direct, or on the source).
ByDeposit(i) == parent[i].op \in {"deposit", "transfer_to:deposit"}
ByWithdrawal(i) == parent[i].op \in {"withdraw", "transfer_to:withdraw"}

\* The lineage of snapshot i starts at a constructed balance of non-negative
\* amount.
RootNonNegative(i) == objs[RootOf(i)].amount >= 0

\* C19 as stated: every snapshot descending by deposit, withdraw and
\* transfer_to, with Money arguments of any sign, from a constructed balance
\* of non-negative amount has a non-negative amount; a deposit never returns
\* less than the balance it was made on and a withdrawal never returns more.
C19_AlwaysNonNegative ==
    \A i \in 1..Len(objs) :
        RootNonNegative(i) =>
            /\ objs[i].amount >= 0
            /\ ByDeposit(i) => objs[i].amount >= objs[parent[i].from].amount
            /\ ByWithdrawal(i) => objs[i].amount <= objs[parent[i].from].amount

\* Every operation on the way from the constructed balance to snapshot i was
\* given a Money of non-negative amount.
RECURSIVE ArgumentsNonNegative(_)
ArgumentsNonNegative(i) ==
    \/ parent[i].op = "none"
    \/ /\ parent[i].money.amount >= 0
       /\ ArgumentsNonNegative(parent[i].from)

\* C19 amended: every snapshot descending by deposit, withdraw and transfer_to
\* with Money arguments of non-negative amount from a constructed balance of
\* non-negative amount has a non-negative amount; with such an argument a
\* deposit never returns less than the balance it was made on and a
\* withdrawal never returns more.
C19_NonNegativeForNonNegativeArguments ==
    \A i \in 1..Len(objs) :
        /\ (RootNonNegative(i) /\ ArgumentsNonNegative(i))
             => objs[i].amount >= 0
        /\ (ByDeposit(i) /\ parent[i].money.amount >= 0)
             => objs[i].amount >= objs[parent[i].from].amount
        /\ (ByWithdrawal(i) /\ parent[i].money.amount >= 0)
             => objs[i].amount <= objs[parent[i].from].amount

\* C19 witness: a deposit and then a withdrawal of positive amounts on a
\* constructed balance of positive amount emptied the balance.
C19_Witness ==
    \E i \in 1..Len(objs) :
        /\ RootNonNegative(i) /\ ArgumentsNonNegative(i)
        /\ ByWithdrawal(i) /\ parent[i].money.amount > 0
        /\ ByDeposit(parent[i].from)
        /\ objs[i].amount = 0

====
